---- MODULE Spec2Model ----
(***************************************************************************)
(* Model of the changelog logic of the nmrs release scripts:               *)
(*   scripts/bump_version.py          update_changelog, main               *)
(*   scripts/extract_release_notes.py extract_release_notes                *)
(*                                                                         *)
(* Text is a sequence of tokens.  A token is either one character that     *)
(* some regular expression or str method of the scripts treats specially   *)
(* ("#", " ", "[", "]", "\n", ".", "/", ":", "-", "\\", "$", ...) or an     *)
(* atom: a non-empty run of ordinary characters (letters, digits) that no  *)
(* pattern of the scripts can match a proper part of.  Every regular       *)
(* expression of the scripts is translated token by token: a literal       *)
(* matches the same tokens, a character class matches one token.           *)
(***************************************************************************)
EXTENDS Integers, Sequences, FiniteSets, TLC

\* ---------------------------------------------------------------- tokens

\* What str.strip() removes and what \s matches.
Whitespace == {" ", "\n", "<TAB>", "<CR>", "<VT>", "<FF>"}

\* The one-character tokens that are neither letters nor digits.
Punctuation ==
    {"#", " ", "[", "]", "\n", ".", "/", ":", "-", "\\", "$", "(", ")",
     "<TAB>", "<CR>", "<VT>", "<FF>", "<BS>", "<BEL>", "<NUL>"}

\* The atoms of the documents and of the strings the scripts build.
Words ==
    {"Changelog", "Unreleased", "unreleased", "HEAD", "head", "https", "github",
     "com", "cachebag", "nmrs", "compare", "beta", "stable", "gui", "v",
     "Fixed", "bug", "X", "Added", "Y", "C", "dir", "n", "init", "line1",
     "line2", "No", "changes", "documented", "Release", "release", "notes",
     "found", "r0", "r1", "r2", "eta", "ug", "mrs",
     "0", "1", "2", "5", "8", "9",
     "2026-11-02", "2024-01-01"}

Alphabet == Punctuation \cup Words

\* str.lower() / re.IGNORECASE on one token.
Lower(t) ==
    CASE t = "Unreleased" -> "unreleased"
      [] t = "HEAD"       -> "head"
      [] t = "Release"    -> "release"
      [] OTHER            -> t

LowerSeq(s) == [k \in 1..Len(s) |-> Lower(s[k])]

\* ------------------------------------------------------- string helpers

Min(S) == CHOOSE x \in S : \A y \in S : x <= y
Max(S) == CHOOSE x \in S : \A y \in S : x >= y

\* The literal lit is at s[i .. i+Len(lit)-1].
MatchAt(s, i, lit) ==
    /\ i >= 1
    /\ i + Len(lit) - 1 <= Len(s)
    /\ \A k \in 1..Len(lit) : s[i + k - 1] = lit[k]

\* The same, under re.IGNORECASE.
MatchAtCI(s, i, lit) ==
    /\ i >= 1
    /\ i + Len(lit) - 1 <= Len(s)
    /\ \A k \in 1..Len(lit) : Lower(s[i + k - 1]) = Lower(lit[k])

\* First index >= from where lit starts, 0 when there is none.
Find(s, lit, from) ==
    LET C == {i \in from..(Len(s) - Len(lit) + 1) : MatchAt(s, i, lit)}
    IN  IF C = {} THEN 0 ELSE Min(C)

\* First index >= from whose token is (not) in the set T; Len(s)+1 when none.
FirstIn(s, T, from) ==
    CHOOSE i \in from..(Len(s) + 1) :
        /\ i = Len(s) + 1 \/ s[i] \in T
        /\ \A j \in from..(i - 1) : s[j] \notin T

FirstNotIn(s, T, from) ==
    CHOOSE i \in from..(Len(s) + 1) :
        /\ i = Len(s) + 1 \/ s[i] \notin T
        /\ \A j \in from..(i - 1) : s[j] \in T

\* Last index whose token is not in the set T; 0 when none.
LastNotIn(s, T) ==
    CHOOSE i \in 0..Len(s) :
        /\ i = 0 \/ s[i] \notin T
        /\ \A j \in (i + 1)..Len(s) : s[j] \in T

\* str.strip()
strip(s) == SubSeq(s, FirstNotIn(s, Whitespace, 1), LastNotIn(s, Whitespace))

\* ------------------------------------------------ the section pattern

\* '## ['
H2Open == <<"#", "#", " ", "[">>

NoMatch == [start |-> 0, stop |-> 0, group1 |-> <<>>]

\* The match that starts at st, with group 1 from g up to the next '## ['
\* at nx (nx = 0: there is none, and \Z ends the match).
SectionMatch(s, st, g, nx) ==
    [start  |-> st,
     stop   |-> IF nx = 0 THEN Len(s) + 1 ELSE nx,
     group1 |-> SubSeq(s, g, (IF nx = 0 THEN Len(s) + 1 ELSE nx) - 1)]

\* The header of n tokens was found at st (st = 0: not found).
SectionAt(s, st, n) ==
    IF st = 0 THEN NoMatch ELSE SectionMatch(s, st, st + n, Find(s, H2Open, st + n))

\* re.search(r'## \[LABEL\](.*?)(?=## \[|\Z)', s[from..], re.DOTALL):
\* start = first token of the match, stop = first token after it,
\* group1 = what (.*?) captured. start = 0: no match.
SectionSearch(s, label, from) ==
    SectionAt(s, Find(s, H2Open \o label \o <<"]">>, from), Len(label) + 5)

\* ------------------------------------------- re.sub replacement templates

\* What the two characters backslash + (first character of token t) stand for
\* in the replacement string of re.sub, where g1 is group 1 of the match:
\* ok = FALSE is re.error ("bad escape", "invalid group reference",
\* "missing <").  The pattern has one group, so \2..\9 are invalid; the
\* letters a b f n r t v are the escapes re knows, every other ASCII letter is
\* a bad escape, any other character keeps its backslash.
TemplateEscape(t, g1) ==
    CASE t = "\\"   -> [ok |-> TRUE, out |-> <<"\\">>]
      [] t = "n"    -> [ok |-> TRUE, out |-> <<"\n">>]
      [] t = "v"    -> [ok |-> TRUE, out |-> <<"<VT>">>]
      [] t = "nmrs" -> [ok |-> TRUE, out |-> <<"\n", "mrs">>]
      [] t = "notes" -> [ok |-> FALSE, out |-> <<>>]
      [] t = "beta" -> [ok |-> TRUE, out |-> <<"<BS>", "eta">>]
      [] t = "bug"  -> [ok |-> TRUE, out |-> <<"<BS>", "ug">>]
      [] t = "found" -> [ok |-> FALSE, out |-> <<>>]
      [] t = "r0"   -> [ok |-> TRUE, out |-> <<"<CR>", "0">>]
      [] t = "r1"   -> [ok |-> TRUE, out |-> <<"<CR>", "1">>]
      [] t = "r2"   -> [ok |-> TRUE, out |-> <<"<CR>", "2">>]
      [] t = "release" -> [ok |-> FALSE, out |-> <<>>]
      [] t = "0"    -> [ok |-> TRUE, out |-> <<"<NUL>">>]
      [] t = "1"    -> [ok |-> TRUE, out |-> g1]
      [] t \in Words -> [ok |-> FALSE, out |-> <<>>]
      [] OTHER      -> [ok |-> TRUE, out |-> <<"\\", t>>]

\* The concatenation of pieces[lo..hi], halving the range.
RECURSIVE Concat(_, _, _)
Concat(pieces, lo, hi) ==
    IF lo > hi THEN <<>>
    ELSE IF lo = hi THEN pieces[lo]
    ELSE LET mid == (lo + hi) \div 2
         IN  Concat(pieces, lo, mid) \o Concat(pieces, mid + 1, hi)

\* The expansion of the replacement template tpl for a match whose group 1
\* is g1.  The template is read left to right: a backslash takes the
\* character after it with it, so in a run of backslashes the 1st, 3rd, ...
\* start an escape and the 2nd, 4th, ... are taken by the one before.
ExpandTemplate(tpl, g1) ==
    LET runStart(i) == 1 + Max({0} \cup {j \in 1..(i - 1) : tpl[j] # "\\"})
        escapes(i)  == tpl[i] = "\\" /\ (i - runStart(i)) % 2 = 0
        taken(i)    == i > 1 /\ escapes(i - 1)
        esc(i)      == IF i = Len(tpl) THEN [ok |-> FALSE, out |-> <<>>]
                       ELSE TemplateEscape(tpl[i + 1], g1)
        pieces      == [i \in 1..Len(tpl) |->
                          IF taken(i) THEN <<>>
                          ELSE IF escapes(i) THEN esc(i).out
                          ELSE <<tpl[i]>>]
    IN  [ok  |-> \A i \in 1..Len(tpl) : escapes(i) => esc(i).ok,
         out |-> Concat(pieces, 1, Len(tpl))]

\* -------------------------------------------- bump_version.update_changelog

\* datetime.now().strftime("%Y-%m-%d")
today == "2026-11-02"

Unreleased == <<"Unreleased">>

\* re.search(unreleased_pattern, s[from..], re.DOTALL)
unreleased_pattern(s, from) == SectionSearch(s, Unreleased, from)

\* The body that is promoted: group 1 stripped, or the placeholder.
unreleased_content(m) ==
    IF strip(m.group1) = <<>>
    THEN <<"\n", "\n", "(", "No", " ", "changes", " ", "documented", ")">>
    ELSE strip(m.group1)

\* version is a token sequence such as <<"0", ".", "2", ".", "0">>,
\* release_type the token "beta" or "stable".
version_tag(version, release_type) ==
    IF release_type = "stable" THEN version
    ELSE version \o <<"-", release_type>>

version_header(version, release_type) ==
    H2Open \o version_tag(version, release_type) \o <<"]", " ", "-", " ", today>>

new_version_section(version, release_type, body) ==
    version_header(version, release_type) \o <<"\n">> \o body \o <<"\n", "\n">>

\* A promote that writes no fresh Unreleased section.
NoUnreleasedSection == <<>>

new_unreleased_section == <<"#", "#", " ", "[", "Unreleased", "]", "\n", "\n">>

\* A replacement that loses the text after the match.
ReplacedToTheEnd(s, from, m, x, r) ==
    [ok |-> x.ok /\ r.ok, out |-> SubSeq(s, from, m.start - 1) \o x.out]

\* One replacement of re.sub: the text before the match m, the expansion x
\* of the template, and the result r for the text after the match.
Replaced(s, from, m, x, r) ==
    [ok |-> x.ok /\ r.ok, out |-> SubSeq(s, from, m.start - 1) \o x.out \o r.out]

\* re.sub(unreleased_pattern, tpl, s[from..], flags=re.DOTALL): every match
\* is replaced by the expansion of tpl; ok = FALSE when re.sub raises.
RECURSIVE SubUnreleased(_, _, _)
SubUnreleasedAt(s, from, tpl, m) ==
    IF m.start = 0 THEN [ok |-> TRUE, out |-> SubSeq(s, from, Len(s))]
    ELSE Replaced(s, from, m, ExpandTemplate(tpl, m.group1), SubUnreleased(s, m.stop, tpl))

SubUnreleased(s, from, tpl) == SubUnreleasedAt(s, from, tpl, unreleased_pattern(s, from))

\* crate is "nmrs", "nmrs-gui" or "None" (no --crate).
git_tag(version, release_type, crate) ==
    IF crate = "nmrs-gui"
    THEN IF release_type # "stable"
         THEN <<"gui", "-", "v">> \o version_tag(version, release_type)
         ELSE <<"gui", "-", "v">> \o version
    ELSE IF crate = "nmrs"
    THEN IF release_type = "stable"
         THEN <<"nmrs", "-", "v">> \o version
         ELSE <<"nmrs", "-", "v">> \o version_tag(version, release_type)
    ELSE IF release_type = "stable"
         THEN <<"nmrs", "-", "v">> \o version_tag(version, release_type)
         ELSE <<"v">> \o version_tag(version, release_type)

\* 'https://github.com/'
GithubCom == <<"https", ":", "/", "/", "github", ".", "com", "/">>

\* 'https://github.com/cachebag/nmrs/compare/'
CompareUrl == GithubCom \o <<"cachebag", "/", "nmrs", "/", "compare", "/">>

Dots == <<".", ".", ".">>

\* A literal at s[i], case-insensitively when ci.
LitAt(s, i, lit, ci) == IF ci THEN MatchAtCI(s, i, lit) ELSE MatchAt(s, i, lit)

\* [^x]+x for the tokens x of T: the index of the x that ends the non-empty
\* run of other tokens starting at o, 0 when there is no such run.
RunEnd(s, o, e) == IF e > o /\ e <= Len(s) THEN e ELSE 0
RunUntil(s, o, T) == RunEnd(s, o, FirstIn(s, T, o))

NoTail == [after |-> 0, from |-> 0, to |-> 0]

\* [^\.]+\.\.\. from t on, the first dot being at d.
LowerBound(s, t, d) ==
    IF d = 0 \/ ~MatchAt(s, d, Dots) THEN NoTail
    ELSE [after |-> d + 3, from |-> t, to |-> d - 1]

\* /compare/ after the repository, whose closing slash is at s2.
AfterRepo(s, s2, ci) ==
    IF s2 = 0 \/ ~LitAt(s, s2 + 1, <<"compare", "/">>, ci) THEN NoTail
    ELSE LowerBound(s, s2 + 3, RunUntil(s, s2 + 3, {"."}))

\* [^/]+/ after the owner, whose closing slash is at s1.
AfterOwner(s, s1, ci) ==
    IF s1 = 0 THEN NoTail ELSE AfterRepo(s, RunUntil(s, s1 + 1, {"/"}), ci)

\* https://github\.com/[^/]+/[^/]+/compare/[^\.]+\.\.\. matched at s[p]:
\* after = the index after the three dots (0: no match), from..to = where
\* [^\.]+, the lower-bound tag, is.
CompareTail(s, p, ci) ==
    IF ~LitAt(s, p, GithubCom, ci) THEN NoTail
    ELSE AfterOwner(s, RunUntil(s, p + Len(GithubCom), {"/"}), ci)

\* [^$]*HEAD from a on, stopAt being the first '$': the last HEAD before it.
LastHead(s, a, stopAt) ==
    LET H == {h \in a..(stopAt - 1) : Lower(s[h]) = "head"}
    IN  IF H = {} THEN 0 ELSE Max(H)

LinkHead(s, c) ==
    IF c.after = 0 THEN 0 ELSE LastHead(s, c.after, FirstIn(s, {"$"}, c.after))

\* unreleased_link_pattern, with re.IGNORECASE, matched at s[i]:
\*   \[unreleased\]:\s*https://github\.com/[^/]+/[^/]+/compare/[^\.]+\.\.\.[^$]*HEAD
\* Returns the index of the last token of the match, 0 when it does not match.
unreleased_link_pattern(s, i) ==
    IF ~MatchAtCI(s, i, <<"[", "unreleased", "]", ":">>) THEN 0
    ELSE LinkHead(s, CompareTail(s, FirstNotIn(s, Whitespace, i + 4), TRUE))

unreleased_link_replacement(tag) ==
    <<"[", "Unreleased", "]", ":", " ">> \o CompareUrl \o tag \o Dots \o <<"HEAD">>

\* re.sub(unreleased_link_pattern, unreleased_link_replacement, s[from..],
\*        flags=re.IGNORECASE)
RECURSIVE SubUnreleasedLink(_, _, _)
SubUnreleasedLinkAt(s, from, tag, i) ==
    SubSeq(s, from, i - 1) \o unreleased_link_replacement(tag)
        \o SubUnreleasedLink(s, unreleased_link_pattern(s, i) + 1, tag)

SubUnreleasedLink(s, from, tag) ==
    LET C == {i \in from..Len(s) : unreleased_link_pattern(s, i) # 0}
    IN  IF C = {} THEN SubSeq(s, from, Len(s))
        ELSE SubUnreleasedLinkAt(s, from, tag, Min(C))

NoLink == [stop |-> 0, link_text |-> <<>>, prev_tag |-> <<>>, curr_tag |-> <<>>]

\* ([^\s]+) from c.after up to e; the label is s[i+1..r-1].
LinkGroups(s, i, r, c, e) ==
    IF e < c.after THEN NoLink
    ELSE [stop      |-> e,
          link_text |-> SubSeq(s, i + 1, r - 1),
          prev_tag  |-> SubSeq(s, c.from, c.to),
          curr_tag  |-> SubSeq(s, c.after, e)]

LinkTags(s, i, r, c) ==
    IF c.after = 0 THEN NoLink
    ELSE LinkGroups(s, i, r, c, FirstIn(s, Whitespace, c.after) - 1)

\* \]:\s*https://... after the label, whose closing bracket is at r.
LinkAfterLabel(s, i, r) ==
    IF r = 0 \/ ~MatchAt(s, r, <<"]", ":">>) THEN NoLink
    ELSE LinkTags(s, i, r, CompareTail(s, FirstNotIn(s, Whitespace, r + 2), FALSE))

\* The pattern of re.findall for existing_links, matched at s[i]:
\*   \[([^\]]+)\]:\s*https://github\.com/[^/]+/[^/]+/compare/([^\.]+)\.\.\.([^\s]+)
\* stop = last token of the match (0: no match), and the three groups.
existing_link_pattern(s, i) ==
    IF i <= Len(s) /\ s[i] = "[" THEN LinkAfterLabel(s, i, RunUntil(s, i + 1, {"]"}))
    ELSE NoLink

\* re.findall(...): the non-overlapping matches in s[from..], left to right.
RECURSIVE existing_links(_, _)
LinksFrom(s, m) == <<m>> \o existing_links(s, m.stop + 1)

existing_links(s, from) ==
    LET C == {i \in from..Len(s) : existing_link_pattern(s, i).stop # 0}
    IN  IF C = {} THEN <<>> ELSE LinksFrom(s, existing_link_pattern(s, Min(C)))

\* The loop over existing_links: the upper bound of the first link that is
\* not the Unreleased one, else a fixed tag.
PrevFromLinks(links, crate) ==
    LET rel == {k \in 1..Len(links) : LowerSeq(links[k].link_text) # <<"unreleased">>}
    IN  IF Len(links) > 0
        THEN IF rel # {} THEN strip(links[Min(rel)].curr_tag)
             ELSE <<"nmrs", "-", "v", "1", ".", "0", ".", "0">>
        ELSE IF crate = "nmrs-gui"
             THEN <<"nmrs", "-", "v", "1", ".", "0", ".", "0">>
             ELSE <<"v", "0", ".", "5", ".", "0", "-", "beta">>

\* The lower bound of the new release's comparison link.
prev_version_tag(s, crate) == PrevFromLinks(existing_links(s, 1), crate)

link_label(version, release_type) ==
    IF release_type = "stable" THEN version ELSE version_tag(version, release_type)

new_version_link(label, prev, tag) ==
    <<"[">> \o label \o <<"]", ":", " ">> \o CompareUrl \o prev \o Dots \o tag \o <<"\n">>

\* re.sub(r'(\[Unreleased\]:)', new_version_link + r'\1', s[from..])
RECURSIVE InsertVersionLink(_, _, _)
InsertVersionLinkAt(s, from, link, i) ==
    IF i = 0 THEN SubSeq(s, from, Len(s))
    ELSE SubSeq(s, from, i - 1) \o link \o <<"[", "Unreleased", "]", ":">>
             \o InsertVersionLink(s, i + 4, link)

InsertVersionLink(s, from, link) ==
    InsertVersionLinkAt(s, from, link, Find(s, <<"[", "Unreleased", "]", ":">>, from))

\* Lines 305-361: the link table of the text in which the Unreleased section
\* has been replaced, and the file is written.
WriteLinks(linked, version, release_type, crate) ==
    [ok   |-> TRUE,
     text |-> InsertVersionLink(linked, 1,
                  new_version_link(link_label(version, release_type),
                                   prev_version_tag(linked, crate),
                                   git_tag(version, release_type, crate)))]

\* Lines 298-324: re.sub raising is caught by the except clause, which
\* returns False without writing the file.
ReplaceSection(content, version, release_type, crate, replaced) ==
    IF ~replaced.ok THEN [ok |-> FALSE, text |-> content]
    ELSE WriteLinks(SubUnreleasedLink(replaced.out, 1, git_tag(version, release_type, crate)),
                    version, release_type, crate)

\* A promote without the check of lines 273-275.
PromoteUnchecked(content, version, release_type, crate, m) ==
    ReplaceSection(content, version, release_type, crate,
        SubUnreleased(content, 1,
            new_unreleased_section
                \o new_version_section(version, release_type, unreleased_content(m))))

\* Lines 273-303, m being the match of unreleased_pattern.
PromoteMatch(content, version, release_type, crate, m) ==
    IF m.start = 0 THEN [ok |-> FALSE, text |-> content]
    ELSE ReplaceSection(content, version, release_type, crate,
             SubUnreleased(content, 1,
                 new_unreleased_section
                     \o new_version_section(version, release_type, unreleased_content(m))))

\* update_changelog(file_path, version, release_type, crate) on the text
\* content of the file: ok is the value returned, text what the file holds
\* afterwards (it is written only on the path that returns True).
update_changelog(content, version, release_type, crate) ==
    PromoteMatch(content, version, release_type, crate, unreleased_pattern(content, 1))

\* ------------------------------ extract_release_notes.extract_release_notes

release_name(version, release_type) ==
    IF release_type = "stable" THEN version ELSE version \o <<"-", release_type>>

\* re.sub(r'^.*?\n', '', notes, count=0): without re.MULTILINE ^ is the start
\* of the string only, so the text up to and including the first newline goes.
remove_first_line(notes) ==
    LET n == FirstIn(notes, {"\n"}, 1)
    IN  IF n > Len(notes) THEN notes ELSE SubSeq(notes, n + 1, Len(notes))

ReleaseTitle(name) == <<"#", " ", "Release", " ">> \o name \o <<"\n", "\n">>

NotFoundBody == <<"No", " ", "release", " ", "notes", " ", "found", ".">>

\* An extract without the check of lines 28-29.
NotesOfAnyMatch(name, m) == ReleaseTitle(name) \o remove_first_line(strip(m.group1))

\* Lines 28-36, m being the match of the pattern.
NotesOf(name, m) ==
    IF m.start = 0 THEN ReleaseTitle(name) \o NotFoundBody
    ELSE ReleaseTitle(name) \o remove_first_line(strip(m.group1))

extract_release_notes(content, version, release_type) ==
    NotesOf(release_name(version, release_type),
            SectionSearch(content, release_name(version, release_type), 1))

\* ------------------------------------------- PKGBUILD and package.nix
\* A file is a record of the fields the scripts rewrite.  PKGBUILD: pkgver,
\* the tag in its source URL, the first hash of sha256sums ("none": the file
\* has no sha256sums=('...').  package.nix: version and the value of cargoHash
\* ("none": the file has no cargoHash = "...";).

\* How urlretrieve of the release tarball ends.
Downloads == {"downloaded", "failed"}

\* How the nix-build of update_package_nix_cargohash ends: it returns 0, it
\* fails and reports the hash on stderr or on stdout, it fails without a
\* hash, or subprocess.run raises.
Builds ==
    {"build_succeeds", "hash_in_stderr", "hash_in_stdout", "no_hash",
     "timeout", "not_installed", "subprocess_error", "other_exception"}

TarballHash == "sha256-of-tarball"
CorrectHash == "sha256-from-nix"

\* update_pkgbuild_checksums(file_path, version, release_type): the file
\* afterwards and the value returned.
update_pkgbuild_checksums(file, download) ==
    IF download = "failed" THEN [returned |-> FALSE, file |-> file]
    ELSE IF file.sha256sums = "none" THEN [returned |-> FALSE, file |-> file]
    ELSE [returned |-> TRUE, file |-> [file EXCEPT !.sha256sums = TarballHash]]

\* The three re.sub of update_pkgbuild on the text of PKGBUILD.
PkgverSource == <<"v", "$", "pkgver", "-", "beta">>

WithPkgver(file, version, release_type) ==
    [file EXCEPT !.pkgver = version,
                 !.source = IF file.source = PkgverSource
                            THEN <<"v">> \o version \o <<"-", release_type>>
                            ELSE file.source]

\* update_pkgbuild(file_path, version, release_type): what the checksum
\* update returns is not looked at.
update_pkgbuild(file, version, release_type, download) ==
    [returned |-> TRUE,
     file     |-> update_pkgbuild_checksums(WithPkgver(file, version, release_type),
                                            download).file]

\* re.sub(r'cargoHash\s*=\s*"[^"]*";', 'cargoHash = "<hash>";', content)
WithCargoHash(file, hash) ==
    IF file.cargoHash = "none" THEN file ELSE [file EXCEPT !.cargoHash = hash]

update_cargohash_in_file(file, correct_hash) ==
    [returned |-> TRUE, file |-> WithCargoHash(file, correct_hash)]

\* A build that leaves the file as it is after a timeout.
NotRestoredAfterTimeout(build, original_content, emptied) ==
    IF build = "timeout" THEN emptied ELSE original_content

\* What package.nix holds when the build has ended without a hash: every
\* path writes original_content back over the file with the empty cargoHash.
RestoredAfter(build, original_content, emptied) ==
    CASE build = "build_succeeds"   -> original_content    \* line 189
      [] build = "no_hash"          -> original_content    \* line 189
      [] build = "timeout"          -> original_content    \* line 192
      [] build = "not_installed"    -> original_content    \* line 195
      [] build = "subprocess_error" -> original_content    \* line 198
      [] OTHER                      -> original_content    \* lines 210-214

\* update_package_nix_cargohash(file_path): the file is first written with
\* cargoHash = ""; and then, by what the build did, written again.
update_package_nix_cargohash(file, build) ==
    IF build \in {"hash_in_stderr", "hash_in_stdout"}
    THEN update_cargohash_in_file(file, CorrectHash)
    ELSE [returned |-> FALSE, file |-> RestoredAfter(build, file, WithCargoHash(file, ""))]

\* version = "{version}-{release_type}";
nix_version(version, release_type) == version \o <<"-", release_type>>

\* update_package_nix(file_path, version, release_type): what the cargoHash
\* update returns is not looked at.
update_package_nix(file, version, release_type, build) ==
    IF file.version = nix_version(version, release_type)
    THEN [returned |-> FALSE, file |-> file]
    ELSE [returned |-> TRUE,
          file     |-> update_package_nix_cargohash(
                           [file EXCEPT !.version = nix_version(version, release_type)],
                           build).file]

\* ------------------------------------------------------- the state machine

\* The inputs the scripts are run with.
Versions == {<<"0", ".", "2", ".", "0">>}
OldVersions == {<<"0", ".", "1", ".", "0">>, <<"0", ".", "0", ".", "9">>}
ReleaseTypes == {"beta", "stable"}
Crates == {"None", "nmrs", "nmrs-gui"}

\* How many times the two scripts are run on one changelog.
MaxRuns == 2

\* The changelogs the scripts start from: a title, an Unreleased section (or
\* none), the sections of earlier releases, a table of comparison links.
Title == <<"#", " ", "Changelog", "\n", "\n">>

UnreleasedBodies ==
    { <<>>,
      <<" ", " ", "\n">>,
      <<"\n", "-", " ", "Fixed", " ", "bug", " ", "X", "\n",
              "-", " ", "Added", " ", "Y", "\n", "\n">>,
      <<"\n", "-", " ", "Fixed", " ", "\\", "n", "\n", "\n">>,
      <<"\n", "-", " ", "C", ":", "\\", "dir", "\n", "\n">> }

UnreleasedSections ==
    {<<>>} \cup {<<"#", "#", " ", "[", "Unreleased", "]", "\n">> \o b : b \in UnreleasedBodies}

Section010 ==
    <<"#", "#", " ", "[", "0", ".", "1", ".", "0", "]", " ", "-", " ", "2024-01-01", "\n",
      "\n", "-", " ", "init", "\n", "\n">>

Section009 ==
    <<"#", "#", " ", "[", "0", ".", "0", ".", "9", "]", "\n",
      "-", " ", "line1", "\n", "-", " ", "line2", "\n", "\n">>

Link(label, from, to) ==
    <<"[">> \o label \o <<"]", ":", " ">> \o CompareUrl \o from \o Dots \o to \o <<"\n">>

V010 == <<"v", "0", ".", "1", ".", "0">>
V009 == <<"v", "0", ".", "0", ".", "9">>
V008 == <<"v", "0", ".", "0", ".", "8">>

\* A history of releases with the link tables it can come with: none, one
\* with version tags, one with tags that are not versions, one with version
\* tags and the label of the Unreleased entry in lower case.
Histories ==
    { [sections |-> <<>>, links |-> <<>>],
      [sections |-> <<>>, links |-> Link(<<"Unreleased">>, <<"r0">>, <<"HEAD">>)],
      [sections |-> Section010 \o Section009, links |-> <<>>],
      [sections |-> Section010 \o Section009,
       links    |-> Link(<<"Unreleased">>, V010, <<"HEAD">>)
                        \o Link(<<"0", ".", "1", ".", "0">>, V009, V010)
                        \o Link(<<"0", ".", "0", ".", "9">>, V008, V009)],
      [sections |-> Section010 \o Section009,
       links    |-> Link(<<"unreleased">>, <<"r2">>, <<"HEAD">>)
                        \o Link(<<"0", ".", "1", ".", "0">>, <<"r1">>, <<"r2">>)
                        \o Link(<<"0", ".", "0", ".", "9">>, <<"r0">>, <<"r1">>)],
      [sections |-> Section010 \o Section009,
       links    |-> Link(<<"unreleased">>, V010, <<"HEAD">>)
                        \o Link(<<"0", ".", "1", ".", "0">>, V009, V010)
                        \o Link(<<"0", ".", "0", ".", "9">>, V008, V009)] }

Documents ==
    {Title \o u \o h.sections \o h.links : u \in UnreleasedSections, h \in Histories}

\* The PKGBUILD and package.nix files bump_version.py can find; exists =
\* FALSE: there is no such file.
NoFile == [exists |-> FALSE]

PkgbuildFiles ==
    {NoFile} \cup
    {[exists |-> TRUE, pkgver |-> <<"0", ".", "1", ".", "0">>, source |-> PkgverSource,
      sha256sums |-> h] : h \in {"sha256-old", "none"}}

PackageNixFiles ==
    {NoFile} \cup
    {[exists |-> TRUE, version |-> v \o <<"-", "beta">>, cargoHash |-> h] :
        v \in Versions \cup {<<"0", ".", "1", ".", "0">>}, h \in {"sha256-old", "none"}}

VARIABLES
    changelog,      \* the text of CHANGELOG.md
    pkgbuild,       \* PKGBUILD
    package_nix,    \* package.nix
    last_bump,      \* the last run of bump_version.py: its arguments, the file
                    \* it found, what update_changelog returned, its exit status
    last_packaging, \* the same run: the files it found, how the download and
                    \* the build ended, whether the Cargo.toml updates returned True
    last_extract,   \* the last call of extract_release_notes and its result
    runs            \* runs of the two scripts so far

vars == <<changelog, pkgbuild, package_nix, last_bump, last_packaging, last_extract, runs>>

NoBump ==
    [ran |-> FALSE, version |-> <<>>, release_type |-> "", crate |-> "",
     before |-> <<>>, returned |-> FALSE, exit_status |-> 0]

NoPackaging ==
    [ran |-> FALSE, checksums_only |-> FALSE, version |-> <<>>, release_type |-> "",
     crate |-> "", cargo_ok |-> FALSE, download |-> "", build |-> "",
     pkgbuild |-> NoFile, package_nix |-> NoFile, exit_status |-> 0]

NoExtract ==
    [ran |-> FALSE, version |-> <<>>, release_type |-> "", before |-> <<>>, notes |-> <<>>]

Init ==
    /\ changelog \in Documents
    /\ pkgbuild = [exists |-> TRUE, pkgver |-> <<"0", ".", "1", ".", "0">>,
                   source |-> PkgverSource, sha256sums |-> "sha256-old"]
    /\ package_nix = [exists |-> TRUE, version |-> <<"0", ".", "1", ".", "0", "-", "beta">>,
                      cargoHash |-> "sha256-old"]
    /\ last_bump = NoBump
    /\ last_packaging = NoPackaging
    /\ last_extract = NoExtract
    /\ runs = 0

\* Lines 455-475: PKGBUILD and package.nix are updated for nmrs releases
\* only, and only when the file is there.
ForNmrs(crate) == crate # "nmrs-gui"

PkgbuildStep(crate, file, version, release_type, download) ==
    IF ForNmrs(crate) /\ file.exists
    THEN update_pkgbuild(file, version, release_type, download)
    ELSE [returned |-> TRUE, file |-> file]

PackageNixStep(crate, file, version, release_type, build) ==
    IF ForNmrs(crate) /\ file.exists
    THEN update_package_nix(file, version, release_type, build)
    ELSE [returned |-> TRUE, file |-> file]

\* bump_version.py <version> <release_type> [--crate <crate>]: main() after
\* its argument checks.  cargo_ok says whether every update of a Cargo.toml
\* returned True, download and build how the tarball download and the
\* nix-build end.  Every step runs whatever the steps before it returned, and
\* the exit status is 1 unless every step returned True.
main(version, release_type, crate, cargo_ok, download, build) ==
    /\ runs < MaxRuns
    /\ \E p \in {PkgbuildStep(crate, pkgbuild, version, release_type, download)},
          n \in {PackageNixStep(crate, package_nix, version, release_type, build)},
          r \in {update_changelog(changelog, version, release_type, crate)} :
          \E status \in {IF cargo_ok /\ p.returned /\ n.returned /\ r.ok THEN 0 ELSE 1} :
              /\ pkgbuild' = p.file
              /\ package_nix' = n.file
              /\ changelog' = r.text
              /\ last_bump' = [ran |-> TRUE, version |-> version,
                               release_type |-> release_type, crate |-> crate,
                               before |-> changelog, returned |-> r.ok,
                               exit_status |-> status]
              /\ last_packaging' = [ran |-> TRUE, checksums_only |-> FALSE,
                                    version |-> version, release_type |-> release_type,
                                    crate |-> crate, cargo_ok |-> cargo_ok,
                                    download |-> download, build |-> build,
                                    pkgbuild |-> pkgbuild, package_nix |-> package_nix,
                                    exit_status |-> status]
              /\ last_extract' = NoExtract
              /\ runs' = runs + 1

\* bump_version.py ... --update-checksums-only (lines 409-433): only the two
\* hashes are looked up, and the run exits with status 0.
update_checksums_only(version, release_type, crate, download, build) ==
    /\ runs < MaxRuns
    /\ pkgbuild' = IF ForNmrs(crate) /\ pkgbuild.exists
                   THEN update_pkgbuild_checksums(pkgbuild, download).file
                   ELSE pkgbuild
    /\ package_nix' = IF ForNmrs(crate) /\ package_nix.exists
                      THEN update_package_nix_cargohash(package_nix, build).file
                      ELSE package_nix
    /\ last_packaging' = [ran |-> TRUE, checksums_only |-> TRUE,
                          version |-> version, release_type |-> release_type,
                          crate |-> crate, cargo_ok |-> TRUE,
                          download |-> download, build |-> build,
                          pkgbuild |-> pkgbuild, package_nix |-> package_nix,
                          exit_status |-> 0]
    /\ last_bump' = NoBump
    /\ last_extract' = NoExtract
    /\ runs' = runs + 1
    /\ UNCHANGED changelog

\* The runs on a machine without nix, before the release tarball exists.
Bump ==
    \E version \in Versions, release_type \in ReleaseTypes, crate \in Crates,
       cargo_ok \in BOOLEAN :
        main(version, release_type, crate, cargo_ok, "failed", "not_installed")

\* extract_release_notes.py <version> <release_type> --crate <crate>: the
\* notes are computed from the changelog, which is only read.
Extract ==
    \E version \in Versions \cup OldVersions, release_type \in ReleaseTypes :
        /\ runs < MaxRuns
        /\ runs' = runs + 1
        /\ last_extract' = [ran |-> TRUE, version |-> version, release_type |-> release_type,
                            before |-> changelog,
                            notes |-> extract_release_notes(changelog, version, release_type)]
        /\ UNCHANGED <<changelog, pkgbuild, package_nix, last_bump, last_packaging>>

Next == Bump \/ Extract

Spec == Init /\ [][Next]_vars

\* The runs of bump_version.py alone, with every PKGBUILD and package.nix it
\* can find and every way the download and the build can end, on a changelog
\* with an Unreleased section and on one without.
MaxPackagingRuns == 1

PackagingDocuments ==
    {Title,
     Title \o <<"#", "#", " ", "[", "Unreleased", "]", "\n",
                "\n", "-", " ", "Added", " ", "Y", "\n", "\n">> \o Section010}

InitPackaging ==
    /\ changelog \in PackagingDocuments
    /\ pkgbuild \in PkgbuildFiles
    /\ package_nix \in PackageNixFiles
    /\ last_bump = NoBump
    /\ last_packaging = NoPackaging
    /\ last_extract = NoExtract
    /\ runs = 0

BumpPackaging ==
    \E version \in Versions, crate \in Crates, cargo_ok \in BOOLEAN,
       download \in Downloads, build \in Builds :
        /\ runs < MaxPackagingRuns
        /\ main(version, "beta", crate, cargo_ok, download, build)

ChecksumsOnly ==
    \E version \in Versions, crate \in Crates, download \in Downloads, build \in Builds :
        /\ runs < MaxPackagingRuns
        /\ update_checksums_only(version, "beta", crate, download, build)

NextPackaging == BumpPackaging \/ ChecksumsOnly

SpecPackaging == InitPackaging /\ [][NextPackaging]_vars

\* ---------------------------------------------- the changelog as a document
\* The document of the changelog convention, read line by line: a section
\* is a header line '## [label]' or '## [label] - date' and the lines below
\* it, up to the next header line or the first line of the link table; a
\* link entry is a line '[label]: base/compare/from...to'.

LineStart(s, i) == i = 1 \/ s[i - 1] = "\n"

EndOfLine(s, i) == FirstIn(s, {"\n"}, i)

HeaderStarts(s) ==
    {i \in 1..Len(s) : /\ LineStart(s, i)
                       /\ MatchAt(s, i, H2Open)
                       /\ FirstIn(s, {"]"}, i + 4) < EndOfLine(s, i)}

LinkStarts(s) ==
    {i \in 1..Len(s) : /\ LineStart(s, i)
                       /\ s[i] = "["
                       /\ FirstIn(s, {"]"}, i + 1) < EndOfLine(s, i)
                       /\ MatchAt(s, FirstIn(s, {"]"}, i + 1), <<"]", ":">>)}

HeaderLabel(s, i) == SubSeq(s, i + 4, FirstIn(s, {"]"}, i + 4) - 1)

HeaderLine(s, i) == SubSeq(s, i, EndOfLine(s, i) - 1)

\* Where the section that starts at header i ends (the index after it).
SectionEnd(s, i) ==
    LET later == {j \in HeaderStarts(s) \cup LinkStarts(s) : j > i}
    IN  IF later = {} THEN Len(s) + 1 ELSE Min(later)

SectionBody(s, i) == SubSeq(s, EndOfLine(s, i) + 1, SectionEnd(s, i) - 1)

Blank(text) == strip(text) = <<>>

UnreleasedStarts(s) == {i \in HeaderStarts(s) : HeaderLabel(s, i) = Unreleased}

TheUnreleased(s) == CHOOSE i \in UnreleasedStarts(s) : TRUE

OneUnreleased(s) == Cardinality(UnreleasedStarts(s)) = 1

\* The k-th smallest element of a set of numbers, and the set in order.
Nth(S, k) == CHOOSE x \in S : Cardinality({y \in S : y < x}) = k - 1
InOrder(S) == [k \in 1..Cardinality(S) |-> Nth(S, k)]

\* The sections of s that are not the Unreleased one, in document order.
ReleaseSections(s) ==
    LET at == InOrder(HeaderStarts(s) \ UnreleasedStarts(s))
    IN  [k \in 1..Len(at) |-> [header |-> HeaderLine(s, at[k]), body |-> SectionBody(s, at[k])]]

LinkLabel(s, i) == SubSeq(s, i + 1, FirstIn(s, {"]"}, i + 1) - 1)

\* The two tags of the link entry at i: base/compare/{from}...{to}
LinkFrom(s, i) ==
    LET c == Find(s, <<"compare", "/">>, i)
    IN  SubSeq(s, c + 2, Find(s, Dots, c + 2) - 1)

LinkTo(s, i) ==
    LET c == Find(s, <<"compare", "/">>, i)
    IN  SubSeq(s, Find(s, Dots, c + 2) + 3, EndOfLine(s, i) - 1)

UnreleasedLinks(s) == {i \in LinkStarts(s) : LowerSeq(LinkLabel(s, i)) = <<"unreleased">>}

TheUnreleasedLink(s) == CHOOSE i \in UnreleasedLinks(s) : TRUE

\* The release the last run of bump_version.py was for.
BumpLabel == version_tag(last_bump.version, last_bump.release_type)
BumpTag == git_tag(last_bump.version, last_bump.release_type, last_bump.crate)
Promoted == last_bump.ran /\ last_bump.returned

\* The section right below the Unreleased one after a promote: its header
\* start, 0 when the Unreleased section is not followed by a header line.
NewSection(s) ==
    LET e == SectionEnd(s, TheUnreleased(s))
    IN  IF e \in HeaderStarts(s) THEN e ELSE 0

\* ------------------------------------------------------------------ claims

\* C1: after every successful promote, also after a sequence of promotes, of
\* a changelog that had exactly one Unreleased section, the changelog has
\* exactly one section with the header [Unreleased], and its body is empty.
C1_OneEmptyUnreleased ==
    (Promoted /\ OneUnreleased(last_bump.before)) =>
        /\ OneUnreleased(changelog)
        /\ Blank(SectionBody(changelog, TheUnreleased(changelog)))

C1_Witness ==
    /\ Promoted /\ runs = 2
    /\ OneUnreleased(last_bump.before)
    /\ OneUnreleased(changelog)
    /\ Blank(SectionBody(changelog, TheUnreleased(changelog)))
    /\ Cardinality(HeaderStarts(changelog)) >= 3

\* C2: for every changelog with exactly one Unreleased section whose body B
\* is not blank, promote succeeds and leaves the empty Unreleased section
\* immediately followed by a section with the header '## [L] - today' whose
\* body, trimmed, is exactly B trimmed.
C2_PromotesWholeBody ==
    (/\ last_bump.ran
     /\ OneUnreleased(last_bump.before)
     /\ ~Blank(SectionBody(last_bump.before, TheUnreleased(last_bump.before)))) =>
        /\ last_bump.returned
        /\ OneUnreleased(changelog)
        /\ NewSection(changelog) # 0
        /\ HeaderLine(changelog, NewSection(changelog))
               = version_header(last_bump.version, last_bump.release_type)
        /\ strip(SectionBody(changelog, NewSection(changelog)))
               = strip(SectionBody(last_bump.before, TheUnreleased(last_bump.before)))

\* C3: after a successful promote of a changelog whose link table has an
\* Unreleased entry, that entry's lower bound is the git tag of the release
\* and its upper bound is HEAD.
C3_UnreleasedLinkFollowsRelease ==
    (Promoted /\ UnreleasedLinks(last_bump.before) # {}) =>
        /\ Cardinality(UnreleasedLinks(changelog)) = 1
        /\ LinkFrom(changelog, TheUnreleasedLink(changelog)) = BumpTag
        /\ LinkTo(changelog, TheUnreleasedLink(changelog)) = <<"HEAD">>

\* C4: a successful promote of a changelog whose link table has an Unreleased
\* entry inserts exactly one link entry, immediately above the Unreleased
\* entry, with the label of the release and the URL
\* .../compare/{priorTag}...{git tag}, priorTag being the tag of the previous
\* release: the upper bound of the first entry of the table that is not the
\* Unreleased one, when the table has such an entry.
C4_NewLinkAboveUnreleased ==
    (Promoted /\ UnreleasedLinks(last_bump.before) # {}) =>
        LET before == last_bump.before
            u      == TheUnreleasedLink(changelog)
            older  == LinkStarts(before) \ UnreleasedLinks(before)
            above  == {i \in LinkStarts(changelog) : EndOfLine(changelog, i) + 1 = u}
        IN  /\ Cardinality(LinkStarts(changelog)) = Cardinality(LinkStarts(before)) + 1
            /\ Cardinality(UnreleasedLinks(changelog)) = 1
            /\ \E i \in above :
                  /\ LinkLabel(changelog, i) = BumpLabel
                  /\ older # {} => LinkFrom(changelog, i) = LinkTo(before, Min(older))
                  /\ LinkTo(changelog, i) = BumpTag

\* The notes extract_release_notes returns for a section body.
NotesFor(label, body) == ReleaseTitle(label) \o strip(body)

ExtractLabel == release_name(last_extract.version, last_extract.release_type)

\* C5: round trip: extracting release R from the changelog that promote
\* produced for R (from one Unreleased section with a non-blank body B)
\* returns '# Release L', a blank line, and B trimmed.
C5_RoundTrip ==
    (/\ last_extract.ran
     /\ Promoted
     /\ last_extract.version = last_bump.version
     /\ last_extract.release_type = last_bump.release_type
     /\ OneUnreleased(last_bump.before)
     /\ ~Blank(SectionBody(last_bump.before, TheUnreleased(last_bump.before)))) =>
        last_extract.notes
            = NotesFor(BumpLabel, SectionBody(last_bump.before, TheUnreleased(last_bump.before)))

\* C6: when a section with the header label L exists (with or without a
\* date), extract returns '# Release L', a blank line and the whole body of
\* the first such section, trimmed.
C6_ExtractsWholeSection ==
    LET found == {i \in HeaderStarts(changelog) : HeaderLabel(changelog, i) = ExtractLabel}
    IN  (last_extract.ran /\ found # {}) =>
            last_extract.notes = NotesFor(ExtractLabel, SectionBody(changelog, Min(found)))

\* C7: when the changelog has no Unreleased section, update_changelog returns
\* False, the run exits with status 1 and the changelog is left as it was.
C7_MissingUnreleasedFails ==
    (last_bump.ran /\ UnreleasedStarts(last_bump.before) = {}) =>
        /\ ~last_bump.returned
        /\ last_bump.exit_status = 1
        /\ changelog = last_bump.before

C7_Witness ==
    /\ last_bump.ran
    /\ UnreleasedStarts(last_bump.before) = {}
    /\ HeaderStarts(last_bump.before) # {}
    /\ last_bump.exit_status = 1
    /\ changelog = last_bump.before

Placeholder == <<"(", "No", " ", "changes", " ", "documented", ")">>

\* C8: when the body of the Unreleased section is blank, promote succeeds and
\* the body of the promoted section, trimmed, is the placeholder; the sections
\* that were there before (such as the one an earlier promote made) keep
\* their header and body.
C8_BlankBodyGetsPlaceholder ==
    (/\ last_bump.ran
     /\ OneUnreleased(last_bump.before)
     /\ Blank(SectionBody(last_bump.before, TheUnreleased(last_bump.before)))) =>
        /\ last_bump.returned
        /\ OneUnreleased(changelog)
        /\ NewSection(changelog) # 0
        /\ strip(SectionBody(changelog, NewSection(changelog))) = Placeholder
        /\ ReleaseSections(changelog)
               = <<ReleaseSections(changelog)[1]>> \o ReleaseSections(last_bump.before)

\* C9: when no section header carries exactly the label of the release asked
\* for, extract returns '# Release L', a blank line, 'No release notes
\* found.'; and extract leaves the changelog as it was.
C9_NotFoundNote ==
    last_extract.ran =>
        /\ changelog = last_extract.before
        /\ ({i \in HeaderStarts(changelog) : HeaderLabel(changelog, i) = ExtractLabel} = {}
               => last_extract.notes = ReleaseTitle(ExtractLabel) \o NotFoundBody)

C9_Witness ==
    /\ last_extract.ran
    /\ last_extract.release_type = "stable"
    /\ \E i \in HeaderStarts(changelog) :
          HeaderLabel(changelog, i) = last_extract.version \o <<"-", "beta">>
    /\ {i \in HeaderStarts(changelog) : HeaderLabel(changelog, i) = ExtractLabel} = {}
    /\ last_extract.notes = ReleaseTitle(ExtractLabel) \o NotFoundBody

\* C10: promote of a changelog with exactly one Unreleased section leaves the
\* text before the Unreleased header and every other section, header and
\* body, as they were and in the same order; the only new section is the one
\* immediately below the Unreleased section.
C10_OtherSectionsUntouched ==
    (last_bump.ran /\ OneUnreleased(last_bump.before)) =>
        LET before == last_bump.before
            u      == TheUnreleased(before)
        IN  /\ OneUnreleased(changelog)
            /\ TheUnreleased(changelog) = u
            /\ SubSeq(changelog, 1, u - 1) = SubSeq(before, 1, u - 1)
            /\ IF last_bump.returned
               THEN /\ NewSection(changelog) # 0
                    /\ ReleaseSections(changelog)
                         = <<[header |-> HeaderLine(changelog, NewSection(changelog)),
                              body   |-> SectionBody(changelog, NewSection(changelog))]>>
                               \o ReleaseSections(before)
               ELSE ReleaseSections(changelog) = ReleaseSections(before)

C10_Witness ==
    /\ Promoted /\ runs = 2
    /\ OneUnreleased(last_bump.before)
    /\ Len(ReleaseSections(last_bump.before)) = 3
    /\ Len(ReleaseSections(changelog)) = 4
    /\ ReleaseSections(changelog)[4].body = ReleaseSections(last_bump.before)[3].body

\* The release entries of a link table (all but the Unreleased one), and the
\* entries that carry the label of the last release promoted.
ReleaseLinks(s) == LinkStarts(s) \ UnreleasedLinks(s)
BumpLinks(s) == {i \in ReleaseLinks(s) : LinkLabel(s, i) = BumpLabel}

\* C11: when the link table holds several release entries and an Unreleased
\* entry, the lower bound of the link that a successful promote writes for the
\* new release is the upper bound of the release entry that came first in the
\* table, whether the tags of the table are dotted or not.
C11_PriorTagIsFirstEntry ==
    (/\ Promoted
     /\ UnreleasedLinks(last_bump.before) # {}
     /\ Cardinality(ReleaseLinks(last_bump.before)) >= 2
     /\ BumpLinks(last_bump.before) = {}) =>
        /\ BumpLinks(changelog) # {}
        /\ \A i \in BumpLinks(changelog) :
              LinkFrom(changelog, i)
                  = LinkTo(last_bump.before, Min(ReleaseLinks(last_bump.before)))

\* The labels of the release sections and of the release entries of the link
\* table correspond 1:1: each label of one has exactly one section header and
\* exactly one link entry.
SectionsLabelled(s, l) == {i \in HeaderStarts(s) : HeaderLabel(s, i) = l}
LinksLabelled(s, l) == {i \in ReleaseLinks(s) : LinkLabel(s, i) = l}
Corresponds(s) ==
    /\ \A i \in HeaderStarts(s) \ UnreleasedStarts(s) :
          /\ Cardinality(SectionsLabelled(s, HeaderLabel(s, i))) = 1
          /\ Cardinality(LinksLabelled(s, HeaderLabel(s, i))) = 1
    /\ \A i \in ReleaseLinks(s) :
          /\ Cardinality(SectionsLabelled(s, LinkLabel(s, i))) = 1
          /\ Cardinality(LinksLabelled(s, LinkLabel(s, i))) = 1

\* C12: a successful promote keeps the correspondence of link labels and
\* section headers: when it held before the promote (of a release that has
\* no section yet, in a changelog whose link table has an Unreleased entry),
\* it holds after it; so it holds after every sequence of such promotes.
C12_LinksMatchSections ==
    (/\ Promoted
     /\ Corresponds(last_bump.before)
     /\ UnreleasedLinks(last_bump.before) # {}
     /\ SectionsLabelled(last_bump.before, BumpLabel) = {}) =>
        Corresponds(changelog)

\* What the last run of bump_version.py did with PKGBUILD and package.nix.
NixTried ==
    /\ last_packaging.ran
    /\ last_packaging.crate # "nmrs-gui"
    /\ last_packaging.package_nix.exists
    /\ \/ last_packaging.checksums_only
       \/ last_packaging.package_nix.version
              # last_packaging.version \o <<"-", last_packaging.release_type>>

NoHashFromBuild == last_packaging.build \notin {"hash_in_stderr", "hash_in_stdout"}

PkgbuildTried ==
    /\ last_packaging.ran
    /\ last_packaging.crate # "nmrs-gui"
    /\ last_packaging.pkgbuild.exists

\* C13: when the build gives no hash (it succeeds, fails without a hash,
\* times out, is not installed, raises), package.nix ends with the cargoHash
\* it had, never with the empty one written for the build; when the download
\* fails, the sha256sums of PKGBUILD are as they were; and however the build
\* and the download end, the changelog is promoted and the run exits with
\* status 0 when the other steps succeed.
C13_HashFailuresAreHarmless ==
    /\ (NixTried /\ NoHashFromBuild) =>
           /\ package_nix.cargoHash = last_packaging.package_nix.cargoHash
           /\ package_nix.version
                  = IF last_packaging.checksums_only
                    THEN last_packaging.package_nix.version
                    ELSE last_packaging.version \o <<"-", last_packaging.release_type>>
    /\ (PkgbuildTried /\ last_packaging.download = "failed") =>
           pkgbuild.sha256sums = last_packaging.pkgbuild.sha256sums
    /\ (last_packaging.ran /\ ~last_packaging.checksums_only) =>
           /\ last_bump.ran
           /\ OneUnreleased(last_bump.before) => Promoted
           /\ (/\ last_packaging.cargo_ok
               /\ Promoted
               /\ last_packaging.package_nix.exists /\ last_packaging.crate # "nmrs-gui"
                      => NixTried)
                  => last_packaging.exit_status = 0
    /\ (last_packaging.ran /\ last_packaging.checksums_only) =>
           last_packaging.exit_status = 0

C13_Witness ==
    /\ NixTried /\ PkgbuildTried /\ ~last_packaging.checksums_only
    /\ last_packaging.build = "timeout"
    /\ last_packaging.download = "failed"
    /\ last_packaging.package_nix.cargoHash = "sha256-old"
    /\ package_nix.cargoHash = "sha256-old"
    /\ pkgbuild.sha256sums = "sha256-old"
    /\ Promoted
    /\ last_packaging.exit_status = 0

====
